---- MODULE Spec2Model ----
(***************************************************************************)
(* Quiz generation pipeline of the RAG quiz application                    *)
(* (POST /quiz/generate): retrieval of citations, the retry/dedup loop of  *)
(* generate_quizzes_with_retry, the statement generator with its one-shot  *)
(* JSON repair, the parser's citation fallback, validator, mutator and the *)
(* endpoint's response.                                                    *)
(*                                                                         *)
(* Japanese text is written in ASCII tokens.  A statement is a sequence of *)
(* tokens: "okonau" = okonau (perform), "okonawanai" = its negation,       *)
(* "hissu_dearu" = is mandatory, "nini_dearu" = is optional,               *)
(* "maru" = the full stop, "ten" = the comma, "sp" = a blank,              *)
(* "qmark" = a question mark, "baai_ga_aru" = "in some cases" (a hedge),   *)
(* "taisho" = a noun ending no mutation rule matches, "T1".."T7" = the     *)
(* subject matter taken from a citation's quote, "kasai" = fire.           *)
(***************************************************************************)
EXTENDS Integers, Sequences, FiniteSets, TLC

VARIABLES
    pc,                     \* position of the request handler
    request,                \* [count, source_ids]: the POST body
    target_count,           \* routers/quiz.py: min(request.count, 5)
    citations,              \* result of retrieve_for_quiz
    attempts,               \* generate_quizzes_with_retry: loop counter
    elapsed,                \* wall-clock seconds since start_time
    accepted_quizzes,       \* accepted items, in order
    used_citation_keys,     \* citations already used by an accepted item
    all_rejected_items,     \* reason -> number of rejected items
    attempt_errors,         \* error type -> number of recorded attempt errors
    consecutive_duplicates, \* run length of duplicate_statement rejections
    selected_citations_list,\* citations still to process in this attempt
    gen,                    \* the generation call in flight
    batch,                  \* result of generate_and_validate_quizzes
    skipped,                \* candidates dropped without a reason code
    faults,                 \* environment misbehaviours so far
    response,               \* what the endpoint returned
    resets,                 \* times the used-citation list was reset (logged)
    sampler,                \* retrieve_for_quiz: one sampling of the chunk pool
    ask,                    \* POST /ask: one run of the ask pipeline
    client,                 \* frontend: one fetchApi call and its caller
    chunk_pool,             \* chunk_pool.py: the cached pool, its lock, callers
    use_ask,                \* useAsk: hook state and the submits in flight
    use_quiz                \* useQuiz: hook state and the calls in flight

vars == <<pc, request, target_count, citations, attempts, elapsed,
          accepted_quizzes, used_citation_keys, all_rejected_items,
          attempt_errors, consecutive_duplicates, selected_citations_list,
          gen, batch, skipped, faults, response, resets, sampler, ask,
          client, chunk_pool, use_ask, use_quiz>>

\* the variables of the other subsystems, as seen from the quiz handler
outsideQuiz == <<sampler, ask, client, chunk_pool, use_ask, use_quiz>>

\* a subsystem that is not running
Idle == [pc |-> "idle"]

\* ------------------------------------------------------------------ bounds
\* resets of the used-citation list are counted up to this number
ResetsCap == 2
\* largest count a request asks for
MaxRequestCount == 6
\* longest citation list retrieval returns
MaxRetrieved == 6
\* misbehaviours of the model (a faulty answer, a slow call) per request
MaxLLMFaults == 2
\* cap of the attempts counter; the loop's own ceiling lies below it
AttemptsCap == 6
\* Settings.quiz_max_attempts, explored at a small value (default 10)
quiz_max_attempts == 2
\* settings.ollama_timeout_sec * 2, in units of one slow call
max_total_time_sec == 1

\* ---------------------------------------------------- program constants
\* target_count = min(request.count, 5)
QUIZ_COUNT_LIMIT == 5
\* consecutive duplicates after which the loop gives up
max_consecutive_duplicates == 5
\* validator: statements shorter than 12 characters are rejected
MIN_STATEMENT_LEN == 12

Min(a, b) == IF a < b THEN a ELSE b
Max(a, b) == IF a > b THEN a ELSE b

Range(s) == {s[i] : i \in 1..Len(s)}

\* ------------------------------------------------------------ data model
NoSource == "none"

Citation(src, topic, tail) ==
    [source |-> src, quote |-> <<topic, tail>>]

\* The chunks of the requested source that retrieval can turn into
\* citations.  Two share a subject (T1); one holds fire-related text.
CitationPool ==
    << Citation("sample.txt", "T1", "a"),
       Citation("sample.txt", "T1", "b"),
       Citation("sample.txt", "T2", "a"),
       Citation("sample.txt", "T3", "a"),
       Citation("sample.txt", "T4", "a"),
       Citation("sample.txt", "T5", "a"),
       Citation("sample.txt", "T6", "kasai") >>

\* A chunk of another document.
ForeignCitation == Citation("manual.pdf", "T7", "a")

Reasons == {"llm_negative_phrase", "question_form", "too_short",
            "ambiguous_expression", "citations_empty",
            "false_generation_failed", "duplicate_statement",
            "duplicate_citation"}

ErrorTypes == {"empty_response", "json_parse_error", "exception"}

NoCounts(S) == [r \in S |-> 0]
Bump(f, r) == [f EXCEPT ![r] = @ + 1]

RECURSIVE SumOver(_, _)
SumOver(f, S) ==
    IF S = {} THEN 0
    ELSE LET r == CHOOSE x \in S : TRUE IN f[r] + SumOver(f, S \ {r})

Total(f) == SumOver(f, DOMAIN f)

\* ------------------------------------------------------------ statements
\* Number of characters a token stands for.
TokLen(tok) ==
    CASE tok \in {"T1", "T2", "T3", "T4", "T5", "T6", "T7"} -> 10
      [] tok \in {"maru", "ten", "sp", "qmark", "dot", "comma"} -> 1
      [] tok = "okonau" -> 2
      [] tok = "okonawanai" -> 4
      [] tok \in {"hissu_dearu", "nini_dearu"} -> 5
      [] tok = "baai_ga_aru" -> 5
      [] OTHER -> 3

RECURSIVE StrLen(_)
StrLen(s) == IF s = <<>> THEN 0 ELSE TokLen(Head(s)) + StrLen(Tail(s))

\* re.sub(r'\s+', '', statement), then the four replace('..', '') calls
RECURSIVE StripSpaceAndPunct(_)
StripSpaceAndPunct(s) ==
    IF s = <<>> THEN <<>>
    ELSE IF Head(s) \in {"sp", "maru", "ten", "dot", "comma"}
         THEN StripSpaceAndPunct(Tail(s))
         ELSE <<Head(s)>> \o StripSpaceAndPunct(Tail(s))

\* str.lower() of one token: only Latin letters have a lower case
Lower(tok) ==
    CASE tok = "T1" -> "t1" [] tok = "T2" -> "t2" [] tok = "T3" -> "t3"
      [] tok = "T4" -> "t4" [] tok = "T5" -> "t5" [] tok = "T6" -> "t6"
      [] tok = "T7" -> "t7" [] OTHER -> tok

\* a normalizer that also maps a negated ending to its affirmative one
NormalizeNegationStripped(statement) ==
    LET stripped == StripSpaceAndPunct(statement)
    IN [i \in 1..Len(stripped) |->
           CASE stripped[i] = "okonawanai" -> "okonau"
             [] stripped[i] = "nini_dearu" -> "hissu_dearu"
             [] stripped[i] = "shinai" -> "suru"
             [] OTHER -> Lower(stripped[i])]

\* _normalize_statement: whitespace and punctuation removed, lower-cased.
\* Negation words are left in place.
NormalizeStatement(statement) ==
    LET stripped == StripSpaceAndPunct(statement)
    IN [i \in 1..Len(stripped) |-> Lower(stripped[i])]

\* _is_duplicate: equality of the normalized forms
IsDuplicate(new_statement, existing_statements) ==
    \E i \in 1..Len(existing_statements) :
        NormalizeStatement(existing_statements[i])
            = NormalizeStatement(new_statement)

\* _is_citation_duplicate: the citation's key is already in use
IsCitationDuplicate(cits, used) == \E i \in 1..Len(cits) : cits[i] \in used

\* _contains_negative_phrase: the generator must emit affirmative text
ContainsNegativePhrase(statement) ==
    \E i \in 1..Len(statement) : statement[i] \in {"okonawanai", "shinai"}

\* -------------------------------------------------------------- mutator
\* NEGATION_RULES: (pattern, replacement), tried in order
NEGATION_RULES ==
    << <<"okonau", "okonawanai">>,
       <<"hissu_dearu", "nini_dearu">> >>

\* ALTERNATIVE_MUTATION_RULES: tried when no rule changed the statement
ALTERNATIVE_MUTATION_RULES ==
    << <<"suru", "shinai">> >>

Contains(s, tok) == \E i \in 1..Len(s) : s[i] = tok

\* statement.replace(pattern, replacement, 1): first occurrence only
ReplaceFirst(s, pattern, replacement) ==
    IF ~Contains(s, pattern) THEN s
    ELSE LET k == CHOOSE i \in 1..Len(s) :
                      /\ s[i] = pattern
                      /\ \A j \in 1..(i - 1) : s[j] # pattern
         IN [s EXCEPT ![k] = replacement]

RECURSIVE ApplyRules(_, _)
ApplyRules(statement, rules) ==
    IF rules = <<>> THEN statement
    ELSE LET r == Head(rules)
         IN IF Contains(statement, r[1])
            THEN ReplaceFirst(statement, r[1], r[2])
            ELSE ApplyRules(statement, Tail(rules))

\* make_false_statement: one rule-based change; the input when none applies
MakeFalseStatement(statement) == ApplyRules(statement, NEGATION_RULES)

\* the generator's retry with the alternative rules
MakeFalseWithAlternatives(original_statement) ==
    LET false_statement == MakeFalseStatement(original_statement)
    IN IF false_statement = original_statement
       THEN ApplyRules(original_statement, ALTERNATIVE_MUTATION_RULES)
       ELSE false_statement

\* a generator that takes whatever the mutator returned
AnyFalseStatement(false_statement, original_statement) == TRUE

\* "if false_statement and false_statement != original_statement"
FalseGenerationOk(false_statement, original_statement) ==
    /\ false_statement # <<>>
    /\ false_statement # original_statement

\* ------------------------------------------------------------ validator
Item(statement, answer_bool, cits, origin) ==
    [statement |-> statement, answer_bool |-> answer_bool,
     citations |-> cits, origin |-> origin]

\* a validator without the statement rules
ValidateCitationsOnly(quiz) ==
    IF quiz.citations = <<>> THEN "citations_empty" ELSE "ok"

\* a validator without the empty-citations rule
ValidateWithoutCitations(quiz) ==
    IF Contains(quiz.statement, "qmark") \/ Contains(quiz.statement, "desuka")
    THEN "question_form"
    ELSE IF StrLen(quiz.statement) < MIN_STATEMENT_LEN THEN "too_short"
    ELSE IF Contains(quiz.statement, "baai_ga_aru")
            \/ Contains(quiz.statement, "nozomashii")
    THEN "ambiguous_expression"
    ELSE "ok"

\* validate_quiz_item: "ok" or the reason of the rejection
ValidateQuizItem(quiz) ==
    IF Contains(quiz.statement, "qmark") \/ Contains(quiz.statement, "desuka")
    THEN "question_form"
    ELSE IF StrLen(quiz.statement) < MIN_STATEMENT_LEN THEN "too_short"
    ELSE IF Contains(quiz.statement, "baai_ga_aru")
            \/ Contains(quiz.statement, "nozomashii")
    THEN "ambiguous_expression"
    ELSE IF quiz.citations = <<>> THEN "citations_empty"
    ELSE "ok"

\* --------------------------------------------------------------- parser
\* fire_keywords = ["kasai", "hinan", "saigai", "bohan"]
HasFireContent(cit) ==
    \E i \in 1..Len(cit.quote) :
        cit.quote[i] \in {"kasai", "hinan", "saigai", "bohan"}

\* source.startswith("sample") and source.endswith(".txt")
IsSampleTxt(source) == source \in {"sample.txt", "sample2.txt"}

\* a parser that falls back to the request's citation list instead of the
\* citations of the call
ParsedFromRequestCitations(llm_citations, fallback_citations) ==
    IF Len(citations) > 0 THEN <<citations[1]>> ELSE <<>>

\* _parse_single_quiz: the citations put on the parsed item.  The list the
\* model returned is not consulted: the first fallback citation (the one
\* the call was given) is used, unless it is fire-related text of a
\* sample*.txt file, which is left out.
ParsedCitations(llm_citations, fallback_citations) ==
    IF Len(fallback_citations) > 0
    THEN LET primary_citation == fallback_citations[1]
         IN IF HasFireContent(primary_citation)
               /\ IsSampleTxt(primary_citation.source)
            THEN <<>>
            ELSE <<primary_citation>>
    ELSE <<>>

\* ---------------------------------------------------- the language model
\* What one call of the model can come back with: a parse outcome, the
\* wording of the statement, and what it put in the "citations" field.
Forms == {"good", "spaced", "hissu", "noun_ending", "question", "vague",
          "short", "negative", "suru_ending"}
\* The retry loop is explored with one wording per way the pipeline can
\* treat a statement: accepted, accepted without a false twin, rejected by
\* the validator, rejected as negative.
LoopForms == {"good", "noun_ending", "question", "negative"}
CitationEchoes == {"echo", "empty", "non_object", "foreign"}
ParseErrorTypes == {"empty_response", "json_parse_error"}

LLMOutputs ==
    {[kind |-> "ok", form |-> f, cits |-> c] :
        f \in LoopForms, c \in CitationEchoes}
    \cup {[kind |-> k, form |-> "none", cits |-> "none"] :
              k \in ParseErrorTypes \cup {"exception"}}

BenignOutput == [kind |-> "ok", form |-> "good", cits |-> "echo"]
NoOutput == [kind |-> "none", form |-> "none", cits |-> "none"]

\* the statement the model words about a citation's subject
StatementOf(form, cit) ==
    LET topic == cit.quote[1]
    IN CASE form = "good" -> <<topic, "okonau", "maru">>
         [] form = "spaced" -> <<topic, "sp", "okonau", "maru">>
         [] form = "hissu" -> <<topic, "hissu_dearu", "maru">>
         [] form = "noun_ending" -> <<topic, "taisho", "maru">>
         [] form = "question" -> <<topic, "okonau", "qmark">>
         [] form = "vague" -> <<topic, "okonau", "baai_ga_aru", "maru">>
         [] form = "short" -> <<"okonau", "maru">>
         [] form = "negative" -> <<topic, "okonawanai", "maru">>
         [] form = "suru_ending" -> <<topic, "kakunin", "suru", "maru">>
         [] OTHER -> <<>>

\* the "citations" value of the model's JSON; a non-object entry is
\* written as a record without source
LLMCitations(echo, input_citations) ==
    CASE echo = "echo" -> input_citations
      [] echo = "empty" -> <<>>
      [] echo = "non_object" -> <<[source |-> "", quote |-> <<>>]>>
      [] echo = "foreign" -> <<ForeignCitation>>
      [] OTHER -> <<>>

\* ------------------------------------------- generate_and_validate_quizzes
\* One statement in, the true item and (when the mutation works) the
\* false item out, with the reasons of what was rejected.
GenerateAndValidateQuizzes(out, input_citations) ==
    LET statement == StatementOf(out.form, input_citations[1])
        cits == ParsedCitations(LLMCitations(out.cits, input_citations),
                                input_citations)
        true_quiz == Item(statement, TRUE, cits, statement)
        true_reason == ValidateQuizItem(true_quiz)
        false_statement == MakeFalseWithAlternatives(statement)
        false_quiz == Item(false_statement, FALSE, cits, statement)
        false_reason == ValidateQuizItem(false_quiz)
    IN IF ContainsNegativePhrase(statement)
       THEN [accepted |-> <<>>, rejected |-> <<"llm_negative_phrase">>]
       ELSE IF true_reason # "ok"
       THEN [accepted |-> <<>>, rejected |-> <<true_reason>>]
       ELSE IF FalseGenerationOk(false_statement, statement)
       THEN IF false_reason = "ok"
            THEN [accepted |-> <<true_quiz, false_quiz>>, rejected |-> <<>>]
            ELSE [accepted |-> <<true_quiz>>, rejected |-> <<false_reason>>]
       ELSE [accepted |-> <<true_quiz>>,
             rejected |-> <<"false_generation_failed">>]

RECURSIVE BumpAll(_, _)
BumpAll(f, reasons) ==
    IF reasons = <<>> THEN f ELSE BumpAll(Bump(f, Head(reasons)), Tail(reasons))

\* --------------------------------------------- generate_quizzes_with_retry
\* a loop without a ceiling on attempts
NoAttemptLimit(target) == AttemptsCap + 1

\* max(base_max_attempts, (target_count // 2) + 2)
MaxAttempts(target) == Max(quiz_max_attempts, (target \div 2) + 2)

AcceptedStatements(quizzes) == [i \in 1..Len(quizzes) |-> quizzes[i].statement]

RECURSIVE AvailableCitations(_, _)
AvailableCitations(cits, used) ==
    IF cits = <<>> THEN <<>>
    ELSE IF Head(cits) \in used THEN AvailableCitations(Tail(cits), used)
         ELSE <<Head(cits)>> \o AvailableCitations(Tail(cits), used)

\* The citations one attempt works on: the first of the available ones,
\* as many as are still needed.
SelectCitations(available, remaining) ==
    SubSeq(available, 1, Min(remaining, Len(available)))

\* true and false items alternate where the batch allows it
SelectQuiz(items, quizzes) ==
    LET want_true == quizzes = <<>> \/ ~quizzes[Len(quizzes)].answer_bool
    IN IF want_true \/ Len(items) < 2 THEN items[1] ELSE items[2]

\* a loop without the except-branch
AttemptExceptionRaised(error_type) == "raised"

\* what the except-branch around one attempt does with an exception
AttemptExceptionOutcome(error_type) == "logged"

\* the source the request pins citations to (NoSource: no filter)
ExpectedSource(req) == req.source_ids

\* a loop that does not look at the selected citation's source
NoSourceCheck(expected_source, single_citation) == FALSE

SourceMismatch(expected_source, single_citation) ==
    expected_source # NoSource /\ single_citation.source # expected_source

\* ------------------------------------------------------------- retrieval
\* Where a retrieved list can start in the pool.
StartPositions == {1, 6}

\* retrieve_for_quiz: the citations built from the sampled chunks.  The
\* re-sampling loop (sample_n doubled per retry) can let a chunk of
\* another source through, with or without a source filter.
RetrieveForQuiz ==
    {lead \o SubSeq(CitationPool, i, j) :
        lead \in {<<>>, <<ForeignCitation>>},
        i \in StartPositions,
        j \in 0..Len(CitationPool)}

NoResponse ==
    [status |-> 0, quizzes |-> <<>>, shortage |-> 0,
     reject_reason_counts |-> NoCounts(Reasons)]

\* The endpoint as it was before the shortage error existed: whatever was
\* accepted goes out as a success.
BuildResponsePartial(quizzes, target, rejected) ==
    [status |-> 200, quizzes |-> quizzes, shortage |-> 0,
     reject_reason_counts |-> NoCounts(Reasons)]

\* ------------------------------------------------------ the endpoint's end
\* routers/quiz.py: fewer accepted items than the target is HTTP 422 with
\* the shortfall and the per-reason counts; otherwise HTTP 200.
BuildResponse(quizzes, target, rejected) ==
    IF Len(quizzes) < target
    THEN [status |-> 422, quizzes |-> <<>>,
          shortage |-> target - Len(quizzes),
          reject_reason_counts |-> rejected]
    ELSE [status |-> 200, quizzes |-> SubSeq(quizzes, 1, target),
          shortage |-> 0, reject_reason_counts |-> NoCounts(Reasons)]

\* the target without the limit of five
Unclamped(count) == count

\* target_count = min(request.count, 5)
TargetCount(count) == Min(count, QUIZ_COUNT_LIMIT)

NoGen == [citations |-> <<>>, repair_citations |-> <<>>, llm_calls |-> 0,
          first_error |-> "none", out |-> NoOutput]

Init ==
    /\ pc = "start"
    /\ request \in [count : 1..MaxRequestCount,
                    source_ids : {NoSource, "sample.txt"}]
    /\ target_count = 0
    /\ citations = <<>>
    /\ attempts = 0
    /\ elapsed = 0
    /\ accepted_quizzes = <<>>
    /\ used_citation_keys = {}
    /\ all_rejected_items = NoCounts(Reasons)
    /\ attempt_errors = NoCounts(ErrorTypes)
    /\ consecutive_duplicates = 0
    /\ selected_citations_list = <<>>
    /\ gen = NoGen
    /\ batch = <<>>
    /\ skipped = 0
    /\ faults = 0
    /\ response = NoResponse
    /\ resets = 0
    /\ sampler = Idle
    /\ ask = Idle
    /\ client = Idle
    /\ chunk_pool = Idle
    /\ use_ask = Idle
    /\ use_quiz = Idle

\* generate_quizzes_endpoint, up to the call of the retry loop
generate_quizzes_endpoint ==
    /\ pc = "start"
    /\ \E cits \in RetrieveForQuiz :
          /\ Len(cits) <= MaxRetrieved
          /\ citations' = cits
    /\ target_count' = TargetCount(request.count)
    /\ pc' = "loop"
    /\ UNCHANGED <<request, attempts, elapsed, accepted_quizzes,
                   used_citation_keys, all_rejected_items, attempt_errors,
                   consecutive_duplicates, selected_citations_list, gen,
                   batch, skipped, faults, response>>
    /\ UNCHANGED <<resets, outsideQuiz>>

\* head of the while loop: exit tests, timeout check, availability check
\* with the reset of the used list, choice of this attempt's citations
AttemptHead ==
    /\ pc = "loop"
    /\ gen' = NoGen
    /\ IF \/ Len(accepted_quizzes) >= target_count
          \/ attempts >= MaxAttempts(target_count)
          \/ elapsed > max_total_time_sec
       THEN /\ pc' = "respond"
            /\ UNCHANGED <<attempts, used_citation_keys,
                           selected_citations_list, resets>>
       ELSE LET remaining == target_count - Len(accepted_quizzes)
                available == AvailableCitations(citations, used_citation_keys)
                short == Len(available) < remaining
                reset == short /\ attempts < MaxAttempts(target_count) - 1
                pickfrom == IF reset THEN citations ELSE available
            IN /\ attempts' = Min(attempts + 1, AttemptsCap)
               /\ IF short /\ Len(citations) < remaining
                  THEN /\ pc' = "respond"
                       /\ UNCHANGED <<used_citation_keys,
                                      selected_citations_list, resets>>
                  ELSE /\ used_citation_keys' =
                              IF reset THEN {} ELSE used_citation_keys
                       /\ resets' = IF reset THEN Min(resets + 1, ResetsCap)
                                    ELSE resets
                       /\ selected_citations_list' =
                              SelectCitations(pickfrom, remaining)
                       /\ pc' = "citation"
    /\ UNCHANGED <<request, target_count, citations, elapsed,
                   accepted_quizzes, all_rejected_items, attempt_errors,
                   consecutive_duplicates, batch, skipped, faults,
                   response>>
    /\ UNCHANGED outsideQuiz

\* head of the for loop over the selected citations, with the source check
NextCitation ==
    /\ pc = "citation"
    /\ IF selected_citations_list = <<>>
       THEN /\ pc' = "loop"
            /\ gen' = NoGen
            /\ UNCHANGED <<selected_citations_list, skipped>>
       ELSE LET single_citation == Head(selected_citations_list)
            IN /\ selected_citations_list' = Tail(selected_citations_list)
               /\ IF SourceMismatch(ExpectedSource(request), single_citation)
                  THEN /\ skipped' = skipped + 1
                       /\ gen' = NoGen
                       /\ UNCHANGED pc
                  ELSE /\ gen' = [NoGen EXCEPT !.citations = <<single_citation>>]
                       /\ pc' = "llm"
                       /\ UNCHANGED skipped
    /\ UNCHANGED <<request, target_count, citations, attempts, elapsed,
                   accepted_quizzes, used_citation_keys, all_rejected_items,
                   attempt_errors, consecutive_duplicates, batch, faults,
                   response>>
    /\ UNCHANGED <<resets, outsideQuiz>>

\* ----------------------------------------------- generate_quizzes_with_llm
FaultCost(out, dt) == (IF out = BenignOutput THEN 0 ELSE 1) + dt

Tick(t, dt) == Min(t + dt, max_total_time_sec + 1)

\* An exception of one attempt: logged by the retry loop, which goes on
\* with the next attempt; were it raised, the request would end in a 500.
AttemptException(error_type) ==
    /\ attempt_errors' = Bump(attempt_errors, error_type)
    /\ IF AttemptExceptionOutcome(error_type) = "logged"
       THEN /\ pc' = "loop"
            /\ selected_citations_list' = <<>>
            /\ response' = response
       ELSE /\ pc' = "responded"
            /\ selected_citations_list' = <<>>
            /\ response' = [NoResponse EXCEPT !.status = 500]

\* a generator that answers every failed call with the repair call
RepairOnAnyError(kind) == TRUE

\* which parse outcomes of the normal call lead to the repair call
NeedsRepair(kind) == kind \in ParseErrorTypes

\* the citations handed to the repair call
RepairCitations(g) == g.citations

\* the normal call: prompt from the citations, parse of the answer
ChatNormal ==
    /\ pc = "llm"
    /\ \E out \in LLMOutputs, dt \in 0..1 :
          /\ faults + FaultCost(out, dt) <= MaxLLMFaults
          /\ faults' = faults + FaultCost(out, dt)
          /\ elapsed' = Tick(elapsed, dt)
          /\ IF out.kind = "ok"
             THEN /\ gen' = [gen EXCEPT !.llm_calls = @ + 1, !.out = out]
                  /\ pc' = "validate"
                  /\ UNCHANGED <<attempt_errors, selected_citations_list,
                                 response>>
             ELSE IF NeedsRepair(out.kind)
             THEN /\ gen' = [gen EXCEPT !.llm_calls = @ + 1, !.out = out,
                                        !.first_error = out.kind,
                                        !.repair_citations = RepairCitations(gen)]
                  /\ attempt_errors' = Bump(attempt_errors, out.kind)
                  /\ pc' = "repair"
                  /\ UNCHANGED <<selected_citations_list, response>>
             ELSE /\ gen' = [gen EXCEPT !.llm_calls = @ + 1, !.out = out,
                                        !.first_error = out.kind]
                  /\ AttemptException(out.kind)
    /\ UNCHANGED <<request, target_count, citations, attempts,
                   accepted_quizzes, used_citation_keys, all_rejected_items,
                   consecutive_duplicates, batch, skipped>>
    /\ UNCHANGED <<resets, outsideQuiz>>

\* the JSON repair call: once, same citations; a second parse failure is
\* a ValueError, recorded in attempt_errors, and the loop moves on
ChatRepair ==
    /\ pc = "repair"
    /\ \E out \in LLMOutputs, dt \in 0..1 :
          /\ faults + FaultCost(out, dt) <= MaxLLMFaults
          /\ faults' = faults + FaultCost(out, dt)
          /\ elapsed' = Tick(elapsed, dt)
          /\ gen' = [gen EXCEPT !.llm_calls = @ + 1, !.out = out]
          /\ IF out.kind = "ok"
             THEN /\ pc' = "validate"
                  /\ UNCHANGED <<attempt_errors, selected_citations_list,
                                 response>>
             ELSE AttemptException(out.kind)
    /\ UNCHANGED <<request, target_count, citations, attempts,
                   accepted_quizzes, used_citation_keys, all_rejected_items,
                   consecutive_duplicates, batch, skipped>>
    /\ UNCHANGED <<resets, outsideQuiz>>

\* parse, negative-phrase check, validator, mutator, validator again
GenerateAndValidate ==
    /\ pc = "validate"
    /\ LET result == GenerateAndValidateQuizzes(gen.out, gen.citations)
       IN /\ batch' = result.accepted
          /\ all_rejected_items' = BumpAll(all_rejected_items, result.rejected)
    /\ pc' = "select"
    /\ UNCHANGED <<request, target_count, citations, attempts, elapsed,
                   accepted_quizzes, used_citation_keys, attempt_errors,
                   consecutive_duplicates, selected_citations_list, gen,
                   skipped, faults, response>>
    /\ UNCHANGED <<resets, outsideQuiz>>

\* the loop's handling of the batch: pick one item, duplicate checks,
\* acceptance
SelectAndAccept ==
    /\ pc = "select"
    /\ batch' = <<>>
    /\ gen' = NoGen
    /\ IF batch = <<>>
       THEN /\ pc' = "citation"
            /\ UNCHANGED <<accepted_quizzes, used_citation_keys,
                           all_rejected_items, consecutive_duplicates>>
       ELSE LET selected_quiz == SelectQuiz(batch, accepted_quizzes)
            IN IF IsDuplicate(selected_quiz.statement,
                              AcceptedStatements(accepted_quizzes))
               THEN /\ consecutive_duplicates' = consecutive_duplicates + 1
                    /\ all_rejected_items' =
                           Bump(all_rejected_items, "duplicate_statement")
                    /\ pc' = "citation"
                    /\ UNCHANGED <<accepted_quizzes, used_citation_keys>>
               ELSE IF consecutive_duplicates >= max_consecutive_duplicates
               THEN /\ pc' = "respond"
                    /\ UNCHANGED <<accepted_quizzes, used_citation_keys,
                                   all_rejected_items, consecutive_duplicates>>
               ELSE IF IsCitationDuplicate(selected_quiz.citations,
                                           used_citation_keys)
               THEN /\ all_rejected_items' =
                           Bump(all_rejected_items, "duplicate_citation")
                    /\ pc' = "citation"
                    /\ UNCHANGED <<accepted_quizzes, used_citation_keys,
                                   consecutive_duplicates>>
               ELSE /\ accepted_quizzes' = Append(accepted_quizzes, selected_quiz)
                    /\ used_citation_keys' =
                           used_citation_keys \cup Range(selected_quiz.citations)
                    /\ consecutive_duplicates' = 0
                    /\ pc' = "citation"
                    /\ UNCHANGED all_rejected_items
    /\ UNCHANGED <<request, target_count, citations, attempts, elapsed,
                   attempt_errors, selected_citations_list, skipped,
                   faults, response>>
    /\ UNCHANGED <<resets, outsideQuiz>>

\* generate_quizzes_endpoint, after the retry loop returned
Respond ==
    /\ pc = "respond"
    /\ response' = BuildResponse(accepted_quizzes, target_count,
                                 all_rejected_items)
    /\ pc' = "responded"
    /\ UNCHANGED <<request, target_count, citations, attempts, elapsed,
                   accepted_quizzes, used_citation_keys, all_rejected_items,
                   attempt_errors, consecutive_duplicates,
                   selected_citations_list, gen, batch, skipped, faults>>
    /\ UNCHANGED <<resets, outsideQuiz>>

Next ==
    \/ generate_quizzes_endpoint
    \/ AttemptHead
    \/ NextCitation
    \/ ChatNormal
    \/ ChatRepair
    \/ GenerateAndValidate
    \/ SelectAndAccept
    \/ Respond

Spec == Init /\ [][Next]_vars

\* The handler is sequential code and every call of the model returns (an
\* answer, or an exception at the client's timeout): a step that can be
\* taken is taken.
LiveSpec == Spec /\ WF_vars(Next)

\* ================================================================ claims
Responded == pc = "responded"

AllItems == Range(batch) \cup Range(accepted_quizzes) \cup Range(response.quizzes)

C2_ExactlyRequestedCount ==
    (Responded /\ response.status = 200) =>
        Len(response.quizzes) = request.count

\* C2 (amended): a successful response holds exactly min(N, 5) items for a
\* request of N.
C2_ExactlyClampedCount ==
    (Responded /\ response.status = 200) =>
        Len(response.quizzes) = Min(request.count, 5)

\* C2 case: a success for a request of more than five items
C2_Witness ==
    /\ Responded
    /\ response.status = 200
    /\ request.count > 5
    /\ Len(response.quizzes) = 5

\* C3: every request reaches its response (success or shortage), also when
\* the backend fails on every attempt; the attempt counter never passes
\* max(quiz_max_attempts, target_count // 2 + 2).
C3_Terminates ==
    /\ <>Responded
    /\ [](attempts <= Max(quiz_max_attempts, (target_count \div 2) + 2))

\* C3 case: a response after the backend raised in every attempt
C3_Witness ==
    /\ Responded
    /\ attempts = Max(quiz_max_attempts, (target_count \div 2) + 2)
    /\ attempt_errors["exception"] = attempts

Affirmative(tok) ==
    CASE tok = "okonawanai" -> "okonau"
      [] tok = "shinai" -> "suru"
      [] OTHER -> tok

NegationInsensitive(statement) ==
    LET n == NormalizeStatement(statement)
    IN [i \in 1..Len(n) |-> Affirmative(n[i])]

\* C5: no two items of a response are equal after whitespace, punctuation
\* and negation markers are stripped: a statement and its negated
\* counterpart never both appear.
C5_NoNegationTwins ==
    \A i, j \in 1..Len(response.quizzes) :
        i < j => NegationInsensitive(response.quizzes[i].statement)
                    # NegationInsensitive(response.quizzes[j].statement)

\* C6: every item that passed the validator, was accepted or is returned
\* has at least one citation, whatever the model put in "citations".
C6_EveryItemCited == \A q \in AllItems : Len(q.citations) >= 1

\* C6 case: a true and a false item from a call whose answer carried an
\* empty citation list
C6_Witness ==
    /\ pc = "select"
    /\ gen.out.cits = "empty"
    /\ Len(batch) = 2

\* C7: one generation call asks the model at most twice: the normal call
\* and, only after a structural parse failure of its answer, one repair
\* call given the same citations.
C7_AtMostOneRepair ==
    /\ gen.llm_calls <= 2
    /\ pc = "repair" => gen.llm_calls = 1
    /\ (pc = "repair" \/ gen.llm_calls = 2) =>
          /\ gen.first_error \in {"empty_response", "json_parse_error"}
          /\ gen.repair_citations = gen.citations

\* C7 case: a repair call that produced a parseable answer
C7_Witness ==
    /\ pc = "validate"
    /\ gen.llm_calls = 2
    /\ gen.out.kind = "ok"

C8_Step ==
    /\ response'.status # 500
    /\ (pc \in {"llm", "repair"} /\ pc' \notin {"validate", "repair"}) =>
          /\ pc' = "loop"
          /\ Total(attempt_errors') = Total(attempt_errors) + 1
    /\ (pc = "validate" /\ Len(batch') < 2) =>
          /\ pc' = "select"
          /\ Total(all_rejected_items') = Total(all_rejected_items) + 1

\* C8: a failure of one attempt (a second parse failure, an exception of
\* the call, a validator rejection, a failed mutation) is recorded and the
\* loop goes on; no response is an internal error.
C8_FailuresAreRecorded == [][C8_Step]_vars

\* C8 case: a success after a call whose normal and repair answers both
\* failed to parse
C8_Witness ==
    /\ Responded
    /\ response.status = 200
    /\ attempt_errors["empty_response"] + attempt_errors["json_parse_error"] = 2
    /\ attempt_errors["exception"] = 0

\* C9: when the model's answer carries empty, malformed or non-object
\* citations, the citations on the parsed items are citations that were
\* given to that same generation call.
C9_FallbackFromCallInput ==
    (pc = "select" /\ gen.out.cits \in {"empty", "non_object"}) =>
        \A i \in 1..Len(batch) :
            Range(batch[i].citations) \subseteq Range(gen.citations)

\* C9 case: a parsed batch of a call, not on the first citation of the
\* request, whose answer had a non-object where a citation belongs
C9_Witness ==
    /\ pc = "select"
    /\ gen.out.cits = "non_object"
    /\ batch # <<>>
    /\ batch[1].citations = gen.citations
    /\ gen.citations # SubSeq(citations, 1, 1)

C10_NoFalseEqualsTrue ==
    \A q \in AllItems :
        ~q.answer_bool => (q.statement # <<>> /\ q.statement # q.origin)

C10_Step ==
    (/\ pc = "validate"
     /\ batch' # <<>>
     /\ LET original_statement == batch'[1].statement
            false_statement == MakeFalseWithAlternatives(original_statement)
        IN false_statement = <<>> \/ false_statement = original_statement)
    => /\ Len(batch') = 1
       /\ batch'[1].answer_bool
       /\ all_rejected_items'["false_generation_failed"]
             = all_rejected_items["false_generation_failed"] + 1

\* C10: a mutation whose result is absent or equal to the true statement
\* is recorded as false_generation_failed, and no false item whose
\* statement equals its true statement is parsed, accepted or returned.
C10_MutationFailureIsExplicit ==
    []C10_NoFalseEqualsTrue /\ [][C10_Step]_vars

\* C10 case: a statement no mutation rule changes, kept as a true item
\* with the failure recorded
C10_Witness ==
    /\ pc = "select"
    /\ Len(batch) = 1
    /\ MakeFalseWithAlternatives(batch[1].statement) = batch[1].statement
    /\ all_rejected_items["false_generation_failed"] > 0

\* =============================================== chunk pool and its sampler
quizVars == <<pc, request, target_count, citations, attempts, elapsed,
              accepted_quizzes, used_citation_keys, all_rejected_items,
              attempt_errors, consecutive_duplicates,
              selected_citations_list, gen, batch, skipped, faults, response,
              resets>>

\* no quiz request is being handled
QuizIdle ==
    /\ pc = "idle"
    /\ request = [count |-> 1, source_ids |-> NoSource]
    /\ target_count = 0
    /\ citations = <<>>
    /\ attempts = 0
    /\ elapsed = 0
    /\ accepted_quizzes = <<>>
    /\ used_citation_keys = {}
    /\ all_rejected_items = NoCounts(Reasons)
    /\ attempt_errors = NoCounts(ErrorTypes)
    /\ consecutive_duplicates = 0
    /\ selected_citations_list = <<>>
    /\ gen = NoGen
    /\ batch = <<>>
    /\ skipped = 0
    /\ faults = 0
    /\ response = NoResponse
    /\ resets = 0

\* largest count handed to retrieve_for_quiz
MaxSampleCount == 3
\* seeds of the random draw: 0..MaxSeed
MaxSeed == 2
\* settings.quiz_sample_multiplier, explored at a small value
quiz_sample_multiplier == 1
\* settings.quiz_sample_min_n, explored at a small value
quiz_sample_min_n == 1
\* settings.quiz_citations_min
quiz_citations_min == 3
\* retrieve_for_quiz: at most two re-samplings
max_retries == 2

\* unicodedata.normalize("NFC", s): a decomposed spelling becomes the
\* composed spelling of the same name; composed and ASCII names are fixed
NFC(s) ==
    CASE s = "guide_nfd.pdf" -> "guide_nfc.pdf"
      [] s = "memo_nfd.txt" -> "memo_nfc.txt"
      [] OTHER -> s

\* file names a request can carry in source_ids
SourceNames == {"sample.txt", "guide_nfd.pdf", "memo_nfc.txt", "missing.txt"}

\* the pool keys in dict order
PoolKeyOrder == <<"sample.txt", "guide_nfc.pdf", "memo_nfd.txt">>

\* get_pool(collection): source -> chunk ids
ChunkPool ==
    [k \in Range(PoolKeyOrder) |->
        CASE k = "sample.txt" -> <<"s1", "s2", "s3">>
          [] k = "guide_nfc.pdf" -> <<"g1", "g2">>
          [] OTHER -> <<"m1">>]

\* the source a chunk id is stored under
SourceOfChunk(pool, id) == CHOOSE k \in DOMAIN pool : id \in Range(pool[k])

\* the variant of MatchedKey that substitutes another source
SubstitutedKey(pool, source_norm) ==
    IF \E k \in DOMAIN pool : NFC(k) = source_norm
    THEN CHOOSE k \in DOMAIN pool : NFC(k) = source_norm
    ELSE CHOOSE k \in DOMAIN pool : TRUE

\* pool_keys_norm.get(source_norm): the pool key whose normal form is the
\* requested one, or nothing
MatchedKey(pool, source_norm) ==
    IF \E k \in DOMAIN pool : NFC(k) = source_norm
    THEN CHOOSE k \in DOMAIN pool : NFC(k) = source_norm
    ELSE NoSource

\* sample_ids_multi_source, first half: the matched keys of the requested
\* sources, in request order; an unmatched source is logged and left out
RECURSIVE TargetSources(_, _)
TargetSources(pool, sources) ==
    IF sources = <<>> THEN <<>>
    ELSE LET matched_key == MatchedKey(pool, NFC(Head(sources)))
         IN  (IF matched_key # NoSource THEN <<matched_key>> ELSE <<>>)
             \o TargetSources(pool, Tail(sources))

\* random order of one source's ids under a seed
Shuffle(ids, seed) ==
    IF ids = <<>> THEN <<>>
    ELSE LET r == seed % Len(ids)
         IN  SubSeq(ids, r + 1, Len(ids)) \o SubSeq(ids, 1, r)

\* the variant of Draw that puts every drawn id back
RECURSIVE DrawWithReplacement(_, _, _, _)
DrawWithReplacement(targets, remaining, turn, n) ==
    IF n = 0 \/ \A t \in Range(targets) : remaining[t] = <<>> THEN <<>>
    ELSE LET k == targets[turn]
             nxt == (turn % Len(targets)) + 1
         IN  IF remaining[k] = <<>>
             THEN DrawWithReplacement(targets, remaining, nxt, n)
             ELSE <<Head(remaining[k])>>
                  \o DrawWithReplacement(targets, remaining, nxt, n - 1)

\* round-robin draw without replacement: the target sources take turns and
\* each turn removes the next id of that source
RECURSIVE Draw(_, _, _, _)
Draw(targets, remaining, turn, n) ==
    IF n = 0 \/ \A t \in Range(targets) : remaining[t] = <<>> THEN <<>>
    ELSE LET k == targets[turn]
             nxt == (turn % Len(targets)) + 1
         IN  IF remaining[k] = <<>>
             THEN Draw(targets, remaining, nxt, n)
             ELSE <<Head(remaining[k])>>
                  \o Draw(targets, [remaining EXCEPT ![k] = Tail(@)],
                          nxt, n - 1)

\* sample_ids_multi_source(pool, sources, n, seed); sources = <<>> stands
\* for "no source requested": every pool key is a target
sample_ids_multi_source(pool, sources, n, seed) ==
    LET target_sources == IF sources = <<>> THEN PoolKeyOrder
                          ELSE TargetSources(pool, sources)
    IN  Draw(target_sources,
             [k \in DOMAIN pool |-> Shuffle(pool[k], seed)], 1, n)

\* source_ids of a request: up to three names, repeats allowed
SourceLists ==
    {<<>>} \cup {<<a>> : a \in SourceNames}
           \cup {<<a, b>> : a \in SourceNames, b \in SourceNames}
           \cup {<<a, b, c>> : a \in SourceNames, b \in SourceNames,
                               c \in SourceNames}

outsideSampler == <<quizVars, ask, client, chunk_pool, use_ask, use_quiz>>

SamplerInit ==
    /\ QuizIdle
    /\ ask = Idle
    /\ client = Idle
    /\ chunk_pool = Idle
    /\ use_ask = Idle
    /\ use_quiz = Idle
    /\ \E source_ids \in SourceLists, count \in 1..MaxSampleCount :
          sampler = [pc |-> "start", source_ids |-> source_ids,
                     count |-> count, sample_n |-> 0, retry_count |-> 0,
                     sampled_ids |-> <<>>, citations |-> <<>>]

\* retrieve_for_quiz, steps 1-5 of the first pass: one citation per fetched
\* chunk
FirstSample ==
    /\ sampler.pc = "start"
    /\ \E seed \in 0..MaxSeed :
          LET sample_n == Max(sampler.count * quiz_sample_multiplier,
                              quiz_sample_min_n)
              sampled_ids == sample_ids_multi_source(
                                 ChunkPool, sampler.source_ids, sample_n, seed)
          IN  sampler' = [sampler EXCEPT !.pc = "check",
                                         !.sample_n = sample_n,
                                         !.sampled_ids = sampled_ids,
                                         !.citations = sampled_ids]
    /\ UNCHANGED outsideSampler

\* retrieve_for_quiz: one turn of the re-sampling loop
Resample ==
    /\ sampler.pc = "check"
    /\ Len(sampler.citations) < quiz_citations_min
    /\ sampler.retry_count < max_retries
    /\ \E seed \in 0..MaxSeed :
          LET sample_n == sampler.sample_n * 2
              sampled_ids == sample_ids_multi_source(
                                 ChunkPool, sampler.source_ids, sample_n, seed)
          IN  sampler' = [sampler EXCEPT !.retry_count = @ + 1,
                                         !.sample_n = sample_n,
                                         !.sampled_ids = sampled_ids,
                                         !.citations = sampled_ids]
    /\ UNCHANGED outsideSampler

\* retrieve_for_quiz: the loop condition fails and the citations are returned
ReturnCitations ==
    /\ sampler.pc = "check"
    /\ ~(Len(sampler.citations) < quiz_citations_min
         /\ sampler.retry_count < max_retries)
    /\ sampler' = [sampler EXCEPT !.pc = "done"]
    /\ UNCHANGED outsideSampler

SamplerNext ==
    \/ FirstSample
    \/ Resample
    \/ ReturnCitations

SamplerSpec == SamplerInit /\ [][SamplerNext]_vars

\* the requested sources, in normal form
RequestedNorm == {NFC(sampler.source_ids[i]) : i \in DOMAIN sampler.source_ids}

\* a requested source has no pool entry after normalization
SomeSourceUnmatched ==
    \E i \in DOMAIN sampler.source_ids :
        MatchedKey(ChunkPool, NFC(sampler.source_ids[i])) = NoSource

C11_WitnessEmpty ==
    /\ sampler.pc = "done"
    /\ sampler.source_ids = <<"missing.txt">>
    /\ sampler.retry_count = max_retries
    /\ sampler.sampled_ids = <<>>

\* C20: one sampler call draws without replacement: no chunk id appears
\* twice in the ids it returned, whatever the requested sources (repeated
\* names included), the sample size and the seed.
C20_NoRepeatedId ==
    \A i, j \in DOMAIN sampler.sampled_ids :
        i # j => sampler.sampled_ids[i] # sampler.sampled_ids[j]

\* the same source was requested twice and more ids were asked for than
\* the source holds: the draw came back with every id of it, once each
C20_Witness ==
    /\ sampler.source_ids = <<"sample.txt", "sample.txt">>
    /\ sampler.sample_n > Len(ChunkPool["sample.txt"])
    /\ Len(sampler.sampled_ids) = Len(ChunkPool["sample.txt"])

\* =================================================== claims on the handler
\* C12: every candidate the orchestrator discards is counted under a reason
\* code of the rejection breakdown: none is skipped without a recorded
\* reason, so the per-reason counts add up to the number of discarded
\* candidates.
C12_EveryDiscardHasReason ==
    Total(all_rejected_items) + skipped = Total(all_rejected_items)

\* the validator's acceptance conditions, spelled out on one item
WellFormedItem(q) ==
    /\ q.statement # <<>>
    /\ StrLen(q.statement) >= MIN_STATEMENT_LEN
    /\ ~Contains(q.statement, "qmark")
    /\ ~Contains(q.statement, "desuka")
    /\ ~Contains(q.statement, "baai_ga_aru")
    /\ ~Contains(q.statement, "nozomashii")
    /\ q.citations # <<>>

\* C13: every item that was accepted or returned, true statement or mutated
\* false statement, satisfies the validator's conditions (statement not
\* empty, at least the minimum length, no interrogative marker, no
\* vagueness marker, citations not empty), and a response never holds more
\* items than were accepted.
C13_OnlyValidatedItemsReturned ==
    /\ \A q \in Range(accepted_quizzes) \cup Range(response.quizzes) :
           WellFormedItem(q)
    /\ Range(response.quizzes) \subseteq Range(accepted_quizzes)

\* a success that holds a mutated false statement, after an interrogative
\* statement was rejected on the way
C13_Witness ==
    /\ Responded
    /\ response.status = 200
    /\ \E q \in Range(response.quizzes) : ~q.answer_bool
    /\ all_rejected_items["question_form"] >= 1

\* ============================================================== POST /ask
\* Scores and weights are kept in tenths: semantic_weight 0.7 is 7, the
\* rerank score -1.5 is -15.
\* TOP_K: number of citations returned at the end
TOP_K == 5
\* RRF_K
RRF_K == 20
\* RERANK_SCORE_THRESHOLD = -1.5
RERANK_SCORE_THRESHOLD == -15
\* RERANK_SCORE_GAP_THRESHOLD = 6.0
RERANK_SCORE_GAP_THRESHOLD == 60
\* most hits one search returns; the corpus has this many chunks
MaxHits == 7
\* rerank_n, explored at a small value
rerank_n == 6

\* retrieval.semantic_weight of the request
SemanticWeights == {0, 7, 10}

\* what the cross-encoder says about the corpus for one question
ScoreProfiles == {"all_low", "high", "spread", "floor"}

\* outcome of the call to the text-generation backend
LLMOutcomes == {"ok", "down", "timeout", "error"}

\* the semantic search ranks the chunks upwards, the keyword search
\* downwards
SemanticHits(n) == [i \in 1..n |-> i]
KeywordHits(n) == [i \in 1..n |-> MaxHits + 1 - i]

\* first 60 characters of the quote: the last chunk repeats the text of
\* the first
QuotePrefix(id) == IF id = MaxHits THEN 1 ELSE id

\* 1-based rank of a chunk in a hit list, 0 when absent
RankIn(hits, id) ==
    IF \E i \in DOMAIN hits : hits[i] = id
    THEN CHOOSE i \in DOMAIN hits : hits[i] = id
    ELSE 0

\* fractions <<numerator, denominator>> with positive denominators
FracAdd(a, b) == <<a[1] * b[2] + b[1] * a[2], a[2] * b[2]>>
FracLess(a, b) == a[1] * b[2] < b[1] * a[2]
FracEq(a, b) == a[1] * b[2] = b[1] * a[2]

\* one term of the fused score; a list the chunk is absent from gives 0
RRFTerm(w, rank) == IF rank = 0 THEN <<0, 1>> ELSE <<w, RRF_K + rank>>

\* the sum with an absent chunk counted as rank 0 of the list
rrf_score_absent_ranked(w_sem, w_kw, rank_sem, rank_kw) ==
    FracAdd(<<w_sem, RRF_K + rank_sem>>, <<w_kw, RRF_K + rank_kw>>)

\* rrf_score = w_sem / (20 + rank_sem) + w_kw / (20 + rank_kw)
rrf_score(w_sem, w_kw, rank_sem, rank_kw) ==
    FracAdd(RRFTerm(w_sem, rank_sem), RRFTerm(w_kw, rank_kw))

RetrievalCandidate(id, semantic_hits, keyword_hits, w_sem) ==
    [id |-> id,
     rank_sem |-> RankIn(semantic_hits, id),
     rank_kw |-> RankIn(keyword_hits, id),
     rrf_score |-> rrf_score(w_sem, 10 - w_sem,
                             RankIn(semantic_hits, id),
                             RankIn(keyword_hits, id)),
     rerank_score |-> 0]

\* the chunks of the second list that the first does not hold
RECURSIVE OnlyIn(_, _)
OnlyIn(hits, others) ==
    IF hits = <<>> THEN <<>>
    ELSE (IF RankIn(others, Head(hits)) = 0 THEN <<Head(hits)>> ELSE <<>>)
         \o OnlyIn(Tail(hits), others)

RECURSIVE InsertByRRF(_, _)
InsertByRRF(c, sorted) ==
    IF sorted = <<>> THEN <<c>>
    ELSE IF ~FracLess(c.rrf_score, Head(sorted).rrf_score)
         THEN <<c>> \o sorted
         ELSE <<Head(sorted)>> \o InsertByRRF(c, Tail(sorted))

\* stable sort, highest fused score first
RECURSIVE SortByRRF(_)
SortByRRF(cands) ==
    IF cands = <<>> THEN <<>>
    ELSE InsertByRRF(Head(cands), SortByRRF(Tail(cands)))

\* keep the first candidate of every quote prefix
RECURSIVE Deduplicate(_, _)
Deduplicate(cands, seen) ==
    IF cands = <<>> THEN <<>>
    ELSE IF QuotePrefix(Head(cands).id) \in seen
         THEN Deduplicate(Tail(cands), seen)
         ELSE <<Head(cands)>>
              \o Deduplicate(Tail(cands),
                             seen \cup {QuotePrefix(Head(cands).id)})

\* RRF merge of the two hit lists
Merge(semantic_hits, keyword_hits, w_sem) ==
    LET ids == semantic_hits \o OnlyIn(keyword_hits, semantic_hits)
        cands == [i \in 1..Len(ids) |->
                     RetrievalCandidate(ids[i], semantic_hits,
                                        keyword_hits, w_sem)]
    IN  Deduplicate(SortByRRF(cands), {})

\* score of the cross-encoder for a chunk
RerankScore(profile, id) ==
    CASE profile = "all_low" -> RERANK_SCORE_THRESHOLD - id
      [] profile = "high" -> 50 - id
      [] profile = "spread" -> 80 - 30 * (id - 1)
      [] OTHER -> -10 - 5 * (id - 1)

RECURSIVE InsertByRerank(_, _)
InsertByRerank(c, sorted) ==
    IF sorted = <<>> THEN <<c>>
    ELSE IF c.rerank_score >= Head(sorted).rerank_score
         THEN <<c>> \o sorted
         ELSE <<Head(sorted)>> \o InsertByRerank(c, Tail(sorted))

RECURSIVE SortByRerank(_)
SortByRerank(cands) ==
    IF cands = <<>> THEN <<>>
    ELSE InsertByRerank(Head(cands), SortByRerank(Tail(cands)))

\* the head of the merged list, re-scored and in the order of the model
Rerank(merged, profile) ==
    LET head == SubSeq(merged, 1, Min(rerank_n, Len(merged)))
    IN  SortByRerank([i \in 1..Len(head) |->
                        [head[i] EXCEPT
                            !.rerank_score = RerankScore(profile, head[i].id)]])

\* the gates with both limits let through
PassesGatesInclusive(c, top_score) ==
    /\ c.rerank_score >= RERANK_SCORE_THRESHOLD
    /\ top_score - c.rerank_score <= RERANK_SCORE_GAP_THRESHOLD

\* the two admission gates: a score at or below the threshold is removed,
\* and so is a score 6.0 or more below the top score
PassesGates(c, top_score) ==
    /\ ~(c.rerank_score <= RERANK_SCORE_THRESHOLD)
    /\ ~(top_score - c.rerank_score >= RERANK_SCORE_GAP_THRESHOLD)

RECURSIVE ApplyThresholds(_, _)
ApplyThresholds(cands, top_score) ==
    IF cands = <<>> THEN <<>>
    ELSE (IF PassesGates(Head(cands), top_score) THEN <<Head(cands)>>
          ELSE <<>>)
         \o ApplyThresholds(Tail(cands), top_score)

\* the variant of FinalCitations that returns every survivor
AllSurvivors(after_threshold) == after_threshold

\* the citations of the response: the first TOP_K survivors
FinalCitations(after_threshold) ==
    SubSeq(after_threshold, 1, Min(TOP_K, Len(after_threshold)))

NoZeroReason == "none"

\* the variant of ZeroReason that has no code for the gates
ZeroReasonUnknown(post_rerank, final_citations) ==
    IF final_citations # <<>> THEN NoZeroReason ELSE "no_candidates"

\* debug.zero_reason
ZeroReason(post_rerank, final_citations) ==
    IF final_citations # <<>> THEN NoZeroReason
    ELSE IF post_rerank # <<>>
         THEN "all_candidates_removed_by_rerank_threshold"
         ELSE "no_candidates"

\* the variant of AskResponse in which a failed generation fails the request
AskResponseAllOrNothing(llm_outcome, final_citations, zero_reason) ==
    IF llm_outcome = "ok"
    THEN [status |-> 200, answer |-> "llm_answer",
          citations |-> final_citations, zero_reason |-> zero_reason]
    ELSE [status |-> 500, answer |-> "", citations |-> <<>>,
          zero_reason |-> zero_reason]

\* the body of the answer: HTTP 200 with the citations of the retrieval,
\* and the fallback text when the generation failed
AskResponse(llm_outcome, final_citations, zero_reason) ==
    [status |-> 200,
     answer |-> IF llm_outcome = "ok" THEN "llm_answer"
                ELSE "fallback_answer",
     citations |-> final_citations,
     zero_reason |-> zero_reason]

NoAskResponse == [status |-> 0, answer |-> "", citations |-> <<>>,
                  zero_reason |-> NoZeroReason]

outsideAsk == <<quizVars, sampler, client, chunk_pool, use_ask, use_quiz>>

AskInit ==
    /\ QuizIdle
    /\ sampler = Idle
    /\ client = Idle
    /\ chunk_pool = Idle
    /\ use_ask = Idle
    /\ use_quiz = Idle
    /\ \E w \in SemanticWeights, n_sem \in 0..MaxHits, n_kw \in 0..MaxHits,
          profile \in ScoreProfiles :
          ask = [pc |-> "search", semantic_weight |-> w,
                 semantic_hits |-> SemanticHits(n_sem),
                 keyword_hits |-> KeywordHits(n_kw),
                 profile |-> profile,
                 merged |-> <<>>, post_rerank |-> <<>>,
                 after_threshold |-> <<>>, citations |-> <<>>,
                 zero_reason |-> NoZeroReason, llm_outcome |-> "none",
                 response |-> NoAskResponse]

\* both searches have answered: RRF merge and deduplication
HybridSearch ==
    /\ ask.pc = "search"
    /\ ask' = [ask EXCEPT
                 !.pc = "rerank",
                 !.merged = Merge(ask.semantic_hits, ask.keyword_hits,
                                  ask.semantic_weight)]
    /\ UNCHANGED outsideAsk

\* cross-encoder reranking of the head of the merged list
RerankCandidates ==
    /\ ask.pc = "rerank"
    /\ ask' = [ask EXCEPT !.pc = "threshold",
                          !.post_rerank = Rerank(ask.merged, ask.profile)]
    /\ UNCHANGED outsideAsk

\* the gates, the cut to TOP_K and the zero reason
SelectCitationsForAnswer ==
    /\ ask.pc = "threshold"
    /\ LET after_threshold ==
               IF ask.post_rerank = <<>> THEN <<>>
               ELSE ApplyThresholds(ask.post_rerank,
                                    ask.post_rerank[1].rerank_score)
           final_citations == FinalCitations(after_threshold)
       IN  ask' = [ask EXCEPT
                     !.pc = "generate",
                     !.after_threshold = after_threshold,
                     !.citations = final_citations,
                     !.zero_reason = ZeroReason(ask.post_rerank,
                                                final_citations)]
    /\ UNCHANGED outsideAsk

\* the call of the text-generation backend and the response
GenerateAnswer ==
    /\ ask.pc = "generate"
    /\ \E llm_outcome \in LLMOutcomes :
          ask' = [ask EXCEPT
                    !.pc = "done",
                    !.llm_outcome = llm_outcome,
                    !.response = AskResponse(llm_outcome, ask.citations,
                                             ask.zero_reason)]
    /\ UNCHANGED outsideAsk

AskNext ==
    \/ HybridSearch
    \/ RerankCandidates
    \/ SelectCitationsForAnswer
    \/ GenerateAnswer

AskSpec == AskInit /\ [][AskNext]_vars

AskDone == ask.pc = "done"

\* C14: a failed text generation (backend down, timeout, error) neither
\* removes nor prevents the citations: the response is a success and
\* carries exactly the citations the retrieval selected.
C14_CitationsSurviveLLMFailure ==
    AskDone /\ ask.llm_outcome # "ok" =>
        /\ ask.response.status = 200
        /\ ask.response.citations = ask.citations

\* the backend was down and the response carries citations
C14_Witness ==
    /\ AskDone
    /\ ask.llm_outcome = "down"
    /\ ask.response.citations # <<>>

\* C15: when the gates remove every reranked candidate the response is no
\* error: it has an empty citations list and the zero reason
\* "all_candidates_removed_by_rerank_threshold", and the answer generation
\* was still called.
C15_AllGatedIsNotAnError ==
    /\ ask.pc \in {"generate", "done"}
       /\ ask.post_rerank # <<>> /\ ask.after_threshold = <<>> =>
           /\ ask.citations = <<>>
           /\ ask.zero_reason = "all_candidates_removed_by_rerank_threshold"
    /\ AskDone /\ ask.post_rerank # <<>> /\ ask.after_threshold = <<>> =>
           /\ ask.response.status = 200
           /\ ask.response.citations = <<>>
           /\ ask.response.zero_reason =
                  "all_candidates_removed_by_rerank_threshold"
           /\ ask.llm_outcome \in LLMOutcomes

\* every reranked candidate was below the floor and the generation
\* answered all the same
C15_Witness ==
    /\ AskDone
    /\ Len(ask.post_rerank) >= 2
    /\ ask.after_threshold = <<>>
    /\ ask.llm_outcome = "ok"

\* C18: a response of POST /ask carries at most TOP_K (5) citations, for
\* every semantic weight and every size of the two hit lists.
C18_AtMostTopK ==
    /\ Len(ask.citations) <= TOP_K
    /\ Len(ask.response.citations) <= TOP_K

\* more than TOP_K candidates passed the gates and the response is out
C18_Witness ==
    /\ AskDone
    /\ Len(ask.after_threshold) > TOP_K
    /\ Len(ask.response.citations) = TOP_K

\* ========================================= claims on the shortage response
\* C16: when 5 items are requested and retrieval ends with 3 citations,
\* the response is the 422 shortage error with shortage = 2 and at least
\* one counted reject reason, never a success.
C16_ThreeOfFiveIsShortageOfTwo ==
    Responded /\ request.count = 5 /\ Len(citations) = 3 =>
        /\ response.status = 422
        /\ response.shortage = 2
        /\ Total(response.reject_reason_counts) > 0

\* ==================================================== frontend: fetchApi
\* What the server put in the body. kind: "not_json" (response.json()
\* throws), "null", "string", "object" (a payload), "error"
\* ({error:{code,message}}), "error_no_message" ({error:{code}}),
\* "error_null" ({error:null}), "detail" ({detail:{shortage,
\* reject_reason_counts}}, the body of FastAPI's HTTPException).
Body(kind, code, shortage, counts) ==
    [kind |-> kind, code |-> code, shortage |-> shortage,
     reject_reason_counts |-> counts]

NoBody == Body("none", "", 0, NoCounts(Reasons))

ErrorCodes == {"INVALID_INPUT", "NOT_FOUND", "TIMEOUT"}

\* the 422 of POST /quiz/generate for a target and a number of accepted
\* items, after one rejected question
ShortageBody(target, accepted) ==
    LET r == BuildResponse([i \in 1..accepted |-> BenignOutput], target,
                           Bump(NoCounts(Reasons), "question_form"))
    IN  Body("detail", "", r.shortage, r.reject_reason_counts)

Bodies ==
    {Body(k, "", 0, NoCounts(Reasons)) :
        k \in {"not_json", "null", "string", "object", "array",
               "error_null"}}
    \cup {Body(k, c, 0, NoCounts(Reasons)) :
            k \in {"error", "error_no_message"}, c \in ErrorCodes}
    \cup {ShortageBody(t, 0) : t \in 1..QUIZ_COUNT_LIMIT}

Statuses == {200, 404, 422, 500}

\* response.ok
Ok(status) == status >= 200 /\ status <= 299

\* response.statusText
StatusText(status) ==
    CASE status = 200 -> "OK"
      [] status = 404 -> "Not Found"
      [] status = 422 -> "Unprocessable Entity"
      [] OTHER -> "Internal Server Error"

\* a test that takes a JSON array for no object
IsPlainObject(data) ==
    data.kind \in {"object", "error", "error_no_message", "error_null",
                   "detail"}

\* data && typeof data === "object": true of every JSON object and of
\* every JSON array
IsObject(data) ==
    data.kind \in {"object", "array", "error", "error_no_message",
                   "error_null", "detail"}

\* the test of lines 64-72: an object with an error object that has code
\* and message
IsApiErrorResponse(data) == IsObject(data) /\ data.kind = "error"

\* new ApiError(code, message, status): status 0 stands for undefined
ApiError(code, message, status) ==
    [kind |-> "rejected", code |-> code, message |-> message,
     status |-> status, data |-> NoBody]

Resolved(data) ==
    [kind |-> "resolved", code |-> "", message |-> <<>>, status |-> 0,
     data |-> data]

\* fetchApi, the branch `if (!response.ok)`
ErrorOfResponse(status, data) ==
    IF IsApiErrorResponse(data)
    THEN ApiError(data.code, <<"message of", data.code>>, status)
    ELSE ApiError("INTERNAL_ERROR", <<"HTTP", status, StatusText(status)>>, 0)

NoResult == [kind |-> "pending", code |-> "", message |-> <<>>,
             status |-> 0, data |-> NoBody]

outsideClient == <<quizVars, sampler, ask, chunk_pool, use_ask, use_quiz>>

ClientInit ==
    /\ QuizIdle
    /\ sampler = Idle
    /\ ask = Idle
    /\ chunk_pool = Idle
    /\ use_ask = Idle
    /\ use_quiz = Idle
    /\ \E reachable \in BOOLEAN, status \in Statuses, body \in Bodies :
          client = [pc |-> "fetch", reachable |-> reachable,
                    status |-> status, body |-> body,
                    data |-> NoBody, result |-> NoResult]

\* await fetch(url, ...)
Fetch ==
    /\ client.pc = "fetch"
    /\ IF client.reachable
       THEN client' = [client EXCEPT !.pc = "json"]
       ELSE client' = [client EXCEPT
                         !.pc = "settled",
                         !.result = ApiError("NETWORK_ERROR",
                                             <<"cannot connect">>, 0)]
    /\ UNCHANGED outsideClient

\* await response.json()
ReadJson ==
    /\ client.pc = "json"
    /\ IF client.body.kind = "not_json"
       THEN client' = [client EXCEPT
                         !.pc = "settled",
                         !.result =
                             IF ~Ok(client.status)
                             THEN ApiError("INTERNAL_ERROR",
                                           <<"HTTP", client.status,
                                             StatusText(client.status)>>, 0)
                             ELSE ApiError("INTERNAL_ERROR",
                                           <<"invalid response">>, 0)]
       ELSE client' = [client EXCEPT !.pc = "check", !.data = client.body]
    /\ UNCHANGED outsideClient

\* the rest of fetchApi: error responses, then the shape of a success
CheckResponse ==
    /\ client.pc = "check"
    /\ client' = [client EXCEPT
                    !.pc = "settled",
                    !.result =
                        IF ~Ok(client.status)
                        THEN ErrorOfResponse(client.status, client.data)
                        ELSE IF ~IsObject(client.data)
                        THEN ApiError("INTERNAL_ERROR",
                                      <<"invalid response">>, 0)
                        ELSE Resolved(client.data)]
    /\ UNCHANGED outsideClient

ClientNext ==
    \/ Fetch
    \/ ReadJson
    \/ CheckResponse

ClientSpec == ClientInit /\ [][ClientNext]_vars

\* C17: the 422 shortage response of POST /quiz/generate, once through
\* fetchApi, reaches the caller as an error whose code is not
\* INTERNAL_ERROR and which still carries the shortage and the reject
\* reason counts of the body.
C17_ShortageDistinctAfterFetchApi ==
    /\ client.pc = "settled"
    /\ client.reachable
    /\ client.status = 422
    /\ client.body.kind = "detail"
    => /\ client.result.kind = "rejected"
       /\ client.result.code # "INTERNAL_ERROR"
       /\ client.result.data.shortage = client.body.shortage
       /\ client.result.data.reject_reason_counts =
              client.body.reject_reason_counts

\* ===================================== one statement through the generator
\* One call of generate_and_validate_quizzes on one citation, with every
\* wording of the model, followed by the handler's duplicate checks of the
\* true item and then of the false item.
PairInit ==
    /\ pc = "generate_pair"
    /\ request = [count |-> 1, source_ids |-> NoSource]
    /\ target_count = 1
    /\ \E c \in Range(CitationPool) \cup {ForeignCitation} :
          citations = <<c>>
    /\ attempts = 0
    /\ elapsed = 0
    /\ accepted_quizzes = <<>>
    /\ used_citation_keys = {}
    /\ all_rejected_items = NoCounts(Reasons)
    /\ attempt_errors = NoCounts(ErrorTypes)
    /\ consecutive_duplicates = 0
    /\ selected_citations_list = <<>>
    /\ \E f \in Forms, e \in CitationEchoes :
          gen = [NoGen EXCEPT !.citations = citations,
                              !.out = [kind |-> "ok", form |-> f, cits |-> e]]
    /\ batch = <<>>
    /\ skipped = 0
    /\ faults = 0
    /\ response = NoResponse
    /\ resets = 0
    /\ sampler = Idle
    /\ ask = Idle
    /\ client = Idle
    /\ chunk_pool = Idle
    /\ use_ask = Idle
    /\ use_quiz = Idle

\* generate_and_validate_quizzes on the answer of the model
GeneratePair ==
    /\ pc = "generate_pair"
    /\ LET r == GenerateAndValidateQuizzes(gen.out, gen.citations)
       IN  /\ batch' = r.accepted
           /\ all_rejected_items' = BumpAll(all_rejected_items, r.rejected)
    /\ pc' = "check_true"
    /\ UNCHANGED <<request, target_count, citations, attempts, elapsed,
                   accepted_quizzes, used_citation_keys, attempt_errors,
                   consecutive_duplicates, selected_citations_list, gen,
                   skipped, faults, response>>
    /\ UNCHANGED <<resets, outsideQuiz>>

\* one item of the batch against the statements accepted so far
CheckedAgainstAccepted(quiz) ==
    IF IsDuplicate(quiz.statement, AcceptedStatements(accepted_quizzes))
    THEN /\ all_rejected_items' = Bump(all_rejected_items,
                                       "duplicate_statement")
         /\ UNCHANGED accepted_quizzes
    ELSE /\ accepted_quizzes' = Append(accepted_quizzes, quiz)
         /\ UNCHANGED all_rejected_items

\* "for true_quiz in batch_true: if _is_duplicate(...)"
CheckTrue ==
    /\ pc = "check_true"
    /\ IF \E i \in DOMAIN batch : batch[i].answer_bool
       THEN CheckedAgainstAccepted(
                batch[CHOOSE i \in DOMAIN batch : batch[i].answer_bool])
       ELSE UNCHANGED <<accepted_quizzes, all_rejected_items>>
    /\ pc' = "check_false"
    /\ UNCHANGED <<request, target_count, citations, attempts, elapsed,
                   used_citation_keys, attempt_errors,
                   consecutive_duplicates, selected_citations_list, gen,
                   batch, skipped, faults, response>>
    /\ UNCHANGED <<resets, outsideQuiz>>

\* "for false_quiz in batch_false: if _is_duplicate(...)"
CheckFalse ==
    /\ pc = "check_false"
    /\ IF \E i \in DOMAIN batch : ~batch[i].answer_bool
       THEN CheckedAgainstAccepted(
                batch[CHOOSE i \in DOMAIN batch : ~batch[i].answer_bool])
       ELSE UNCHANGED <<accepted_quizzes, all_rejected_items>>
    /\ pc' = "pair_checked"
    /\ UNCHANGED <<request, target_count, citations, attempts, elapsed,
                   used_citation_keys, attempt_errors,
                   consecutive_duplicates, selected_citations_list, gen,
                   batch, skipped, faults, response>>
    /\ UNCHANGED <<resets, outsideQuiz>>

PairNext ==
    \/ GeneratePair
    \/ CheckTrue
    \/ CheckFalse

PairSpec == PairInit /\ [][PairNext]_vars

SameTopicCitations ==
    << Citation("sample.txt", "T1", "a"),
       Citation("sample.txt", "T1", "b"),
       Citation("sample.txt", "T1", "c"),
       Citation("sample.txt", "T1", "d"),
       Citation("sample.txt", "T1", "e"),
       Citation("sample.txt", "T1", "f") >>

\* the state in which generate_quizzes_endpoint calls the retry loop
SameTopicInit ==
    /\ pc = "loop"
    /\ request \in [count : {4, 5}, source_ids : {NoSource, "sample.txt"}]
    /\ target_count = TargetCount(request.count)
    /\ \E n \in 5..Len(SameTopicCitations) :
          citations = SubSeq(SameTopicCitations, 1, n)
    /\ attempts = 0
    /\ elapsed = 0
    /\ accepted_quizzes = <<>>
    /\ used_citation_keys = {}
    /\ all_rejected_items = NoCounts(Reasons)
    /\ attempt_errors = NoCounts(ErrorTypes)
    /\ consecutive_duplicates = 0
    /\ selected_citations_list = <<>>
    /\ gen = NoGen
    /\ batch = <<>>
    /\ skipped = 0
    /\ faults = 0
    /\ response = NoResponse
    /\ resets = 0
    /\ sampler = Idle
    /\ ask = Idle
    /\ client = Idle
    /\ chunk_pool = Idle
    /\ use_ask = Idle
    /\ use_quiz = Idle

SameTopicNext ==
    \/ AttemptHead
    \/ NextCitation
    \/ ChatNormal
    \/ ChatRepair
    \/ GenerateAndValidate
    \/ SelectAndAccept
    \/ Respond

SameTopicSpec == SameTopicInit /\ [][SameTopicNext]_vars

\* C21: a run of consecutive duplicate rejections never grows beyond the
\* ceiling, and with the count at the ceiling no further generation call
\* is made: the request goes on to its shortage response.
C21_DuplicateRunStopsAtCeiling ==
    /\ consecutive_duplicates <= max_consecutive_duplicates
    /\ consecutive_duplicates >= max_consecutive_duplicates
           => pc \notin {"llm", "repair"}

\* the loop head leaves the loop because the citations do not cover what
\* is still needed, not because of the target, the attempts or the clock
GivesUpForExhaustion ==
    /\ pc = "loop"
    /\ pc' = "respond"
    /\ Len(accepted_quizzes) < target_count
    /\ attempts < MaxAttempts(target_count)
    /\ elapsed <= max_total_time_sec

\* C22: the used-citation list is reset at most once per request, and the
\* loop gives up for want of unused citations only after that one reset
\* has been made.
C22_OneResetBeforeGivingUp ==
    /\ [](resets <= 1)
    /\ [][GivesUpForExhaustion => resets = 1]_vars

\* ================== the retry loop on a document that repeats a passage
\* Two chunks of the file hold the same text, twice over: the citations
\* built from them have the same source and the same quote.
RepeatedPassageCitations ==
    << Citation("sample.txt", "T1", "a"),
       Citation("sample.txt", "T1", "a"),
       Citation("sample.txt", "T2", "a"),
       Citation("sample.txt", "T2", "a") >>

\* the state in which generate_quizzes_endpoint calls the retry loop
RepeatedPassageInit ==
    /\ pc = "loop"
    /\ request \in [count : {3, 4}, source_ids : {NoSource, "sample.txt"}]
    /\ target_count = TargetCount(request.count)
    /\ citations = RepeatedPassageCitations
    /\ attempts = 0
    /\ elapsed = 0
    /\ accepted_quizzes = <<>>
    /\ used_citation_keys = {}
    /\ all_rejected_items = NoCounts(Reasons)
    /\ attempt_errors = NoCounts(ErrorTypes)
    /\ consecutive_duplicates = 0
    /\ selected_citations_list = <<>>
    /\ gen = NoGen
    /\ batch = <<>>
    /\ skipped = 0
    /\ faults = 0
    /\ response = NoResponse
    /\ resets = 0
    /\ sampler = Idle
    /\ ask = Idle
    /\ client = Idle
    /\ chunk_pool = Idle
    /\ use_ask = Idle
    /\ use_quiz = Idle

RepeatedPassageNext ==
    \/ AttemptHead
    \/ NextCitation
    \/ ChatNormal
    \/ ChatRepair
    \/ GenerateAndValidate
    \/ SelectAndAccept
    \/ Respond

RepeatedPassageSpec == RepeatedPassageInit /\ [][RepeatedPassageNext]_vars

Gated == ask.pc \in {"generate", "done"} /\ ask.post_rerank /= <<>>
TopScore == ask.post_rerank[1].rerank_score
Admitted(c) ==
    \E k \in 1..Len(ask.after_threshold) : ask.after_threshold[k].id = c.id

Searched == ask.pc /= "search"

\* w_sem / (K + rank_sem) + w_kw / (K + rank_kw) over a common
\* denominator, a term of a list without the chunk being 0 (weights in
\* tenths)
FusedScoreOf(c, w_sem) ==
    LET sem == IF c.rank_sem = 0 THEN 0 ELSE w_sem
        kw == IF c.rank_kw = 0 THEN 0 ELSE 10 - w_sem
    IN  << sem * (RRF_K + c.rank_kw) + kw * (RRF_K + c.rank_sem),
           (RRF_K + c.rank_sem) * (RRF_K + c.rank_kw) >>

RequestedKeys ==
    {k \in DOMAIN ChunkPool :
        /\ NFC(k) \in RequestedNorm
        /\ ChunkPool[k] /= <<>>}

\* how many of the returned ids come from one pool entry
TakenFrom(k) ==
    Cardinality({i \in DOMAIN sampler.sampled_ids :
                    SourceOfChunk(ChunkPool, sampler.sampled_ids[i]) = k})

NumRequests == 2
\* batches build_pool reads
NumBatches == 2
\* get_pool calls of one request (the first sampling and a re-sampling)
MaxPoolCalls == 2

PoolRequests == 1..NumRequests
AllBatches == 1..NumBatches
\* _pool = None: no batch number is 0
NoPool == {0}
LockFree == 0

\* a caller that does not wait for the lock
AcquiresAlways(lock, t) == TRUE

\* with _pool_lock: the caller goes on only when no one holds the lock
Acquires(lock, t) == lock = LockFree

IdleCaller == [pc |-> "out", force_rebuild |-> FALSE, first |-> FALSE,
               local |-> {}, view |-> NoPool, calls |-> 0]

outsidePool == <<quizVars, sampler, ask, client, use_ask, use_quiz>>

PoolInit ==
    /\ QuizIdle
    /\ sampler = Idle
    /\ ask = Idle
    /\ client = Idle
    /\ use_ask = Idle
    /\ use_quiz = Idle
    /\ chunk_pool = [pc |-> "serving", cache |-> NoPool, lock |-> LockFree,
                     builds |-> 0, forced |-> FALSE,
                     callers |-> [t \in PoolRequests |-> IdleCaller]]

\* a request calls get_pool(collection, force_rebuild)
CallGetPool(t) ==
    /\ chunk_pool.callers[t].pc \in {"out", "sampled"}
    /\ chunk_pool.callers[t].calls < MaxPoolCalls
    /\ \E force_rebuild \in BOOLEAN :
          chunk_pool' = [chunk_pool EXCEPT
              !.forced = @ \/ force_rebuild,
              !.callers[t] = [@ EXCEPT
                  !.pc = "waiting",
                  !.force_rebuild = force_rebuild,
                  !.first = chunk_pool.cache = NoPool,
                  !.local = {},
                  !.view = NoPool,
                  !.calls = @ + 1]]
    /\ UNCHANGED outsidePool

\* with _pool_lock: ... if _pool is None or force_rebuild
EnterLock(t) ==
    /\ chunk_pool.callers[t].pc = "waiting"
    /\ Acquires(chunk_pool.lock, t)
    /\ chunk_pool' = [chunk_pool EXCEPT
          !.lock = t,
          !.callers[t].pc =
              IF chunk_pool.cache = NoPool
                 \/ chunk_pool.callers[t].force_rebuild
              THEN "building" ELSE "cached"]
    /\ UNCHANGED outsidePool

\* build_pool: one collection.get(offset, limit) added to the dict
FetchBatch(t) ==
    /\ chunk_pool.callers[t].pc = "building"
    /\ chunk_pool.callers[t].local /= AllBatches
    /\ LET next_batch == CHOOSE b \in AllBatches :
                             /\ b \notin chunk_pool.callers[t].local
                             /\ \A c \in AllBatches :
                                    c < b => c \in chunk_pool.callers[t].local
       IN  chunk_pool' = [chunk_pool EXCEPT
              !.callers[t].local = @ \cup {next_batch}]
    /\ UNCHANGED outsidePool

\* _pool = build_pool(collection)
StorePool(t) ==
    /\ chunk_pool.callers[t].pc = "building"
    /\ chunk_pool.callers[t].local = AllBatches
    /\ chunk_pool' = [chunk_pool EXCEPT
          !.cache = chunk_pool.callers[t].local,
          !.builds = @ + 1,
          !.callers[t].pc = "cached"]
    /\ UNCHANGED outsidePool

\* return _pool, leaving the with-block
ReturnPool(t) ==
    /\ chunk_pool.callers[t].pc = "cached"
    /\ chunk_pool' = [chunk_pool EXCEPT
          !.lock = IF @ = t THEN LockFree ELSE @,
          !.callers[t].pc = "holding",
          !.callers[t].view = chunk_pool.cache]
    /\ UNCHANGED outsidePool

\* sample_ids_multi_source(pool, ...) on the pool the call returned
SampleFromPool(t) ==
    /\ chunk_pool.callers[t].pc = "holding"
    /\ chunk_pool' = [chunk_pool EXCEPT !.callers[t].pc = "sampled"]
    /\ UNCHANGED outsidePool

PoolNext ==
    \/ \E t \in PoolRequests : CallGetPool(t)
    \/ \E t \in PoolRequests : EnterLock(t)
    \/ \E t \in PoolRequests : FetchBatch(t)
    \/ \E t \in PoolRequests : StorePool(t)
    \/ \E t \in PoolRequests : ReturnPool(t)
    \/ \E t \in PoolRequests : SampleFromPool(t)

PoolSpec == PoolInit /\ [][PoolNext]_vars

Building(t) == chunk_pool.callers[t].pc = "building"

\* C27: at most one request builds the pool at a time; the cached pool is
\* absent or complete, never partly built; the pool a request holds and
\* samples from is complete; and when no rebuild was forced the pool was
\* built at most once, so that requests that met an empty cache at the
\* same time hold the same pool.
C27_RebuildIsExclusive ==
    /\ \A t, u \in PoolRequests : Building(t) /\ Building(u) => t = u
    /\ chunk_pool.cache \in {NoPool, AllBatches}
    /\ \A t \in PoolRequests :
          chunk_pool.callers[t].pc \in {"holding", "sampled"}
              => chunk_pool.callers[t].view = AllBatches
    /\ ~chunk_pool.forced => chunk_pool.builds <= 1

\* two requests called get_pool while the cache was empty, neither forcing
\* a rebuild; one built the pool and both sampled from it
C27_Witness ==
    /\ \A t \in PoolRequests :
          /\ chunk_pool.callers[t].pc = "sampled"
          /\ chunk_pool.callers[t].first
          /\ chunk_pool.callers[t].calls = 1
          /\ chunk_pool.callers[t].view = AllBatches
    /\ ~chunk_pool.forced
    /\ chunk_pool.builds = 1

\* ================================================= fetchApi, every path
Settled == client.pc = "settled"
JsonObjectKinds == {"object", "error", "error_no_message", "error_null",
                    "detail"}
RejectedWith(code) ==
    client.result.kind = "rejected" /\ client.result.code = code

\* what C28 says of every path but the successful one
FailurePathsRejectWithApiError ==
    /\ client.result.kind \in {"rejected", "resolved"}
    /\ ~client.reachable => RejectedWith("NETWORK_ERROR")
    /\ client.reachable /\ client.body.kind = "not_json"
          => RejectedWith("INTERNAL_ERROR")
    /\ client.reachable /\ ~Ok(client.status) /\ client.body.kind = "error"
          => /\ RejectedWith(client.body.code)
             /\ client.result.message = <<"message of", client.body.code>>
             /\ client.result.status = client.status
    /\ client.reachable /\ ~Ok(client.status)
                        /\ client.body.kind \notin {"error", "not_json"}
          => RejectedWith("INTERNAL_ERROR")
    /\ client.result.kind = "resolved"
          => client.reachable /\ Ok(client.status)
                /\ client.result.data = client.body

\* C28 (as the code has it): every failure path of fetchApi rejects with
\* an ApiError of the stated code, and a 2xx response resolves exactly
\* when its body is a JSON object or a JSON array; null, strings and
\* other non-object values are rejected with INTERNAL_ERROR.
C28_RejectsWithApiErrorResolvesObjectsAndArrays ==
    Settled =>
        /\ FailurePathsRejectWithApiError
        /\ client.reachable /\ Ok(client.status)
              => IF client.body.kind \in JsonObjectKinds \cup {"array"}
                 THEN client.result.kind = "resolved"
                 ELSE RejectedWith("INTERNAL_ERROR")

\* C28 (as stated): every failure path of fetchApi rejects with an
\* ApiError of the stated code, and a 2xx response resolves only when its
\* body is a JSON object.
C28_RejectsWithApiErrorResolvesOnlyObjects ==
    Settled =>
        /\ FailurePathsRejectWithApiError
        /\ client.result.kind = "resolved"
              => client.body.kind \in JsonObjectKinds

\* a 200 response whose body is a JSON array went through fetchApi and
\* was handed to the caller
C28_Witness ==
    /\ Settled
    /\ client.reachable
    /\ client.status = 200
    /\ client.body.kind = "array"
    /\ client.result.kind = "resolved"

\* ====================================================== frontend: useAsk
\* The hook as its callers can drive it: submit, retry and reset are
\* plain functions of the returned object, and every submit awaits its
\* own askQuestion call.  Calls are numbered in the order of submission;
\* result and error hold the number of the call they came from (0: null).

\* submit and retry calls of one page visit
MaxSubmits == 3

AskOutcomes == {"resolved", "rejected"}

outsideUseAsk == <<quizVars, sampler, ask, client, chunk_pool, use_quiz>>

UseAskInit ==
    /\ QuizIdle
    /\ sampler = Idle
    /\ ask = Idle
    /\ client = Idle
    /\ chunk_pool = Idle
    /\ use_quiz = Idle
    /\ use_ask = [pc |-> "mounted", loading |-> FALSE, error |-> 0,
                  result |-> 0, lastQuestion |-> 0, latest |-> 0,
                  submitted |-> 0, in_flight |-> {}]

\* the body of submit up to its await
SubmitStarted(h) ==
    [h EXCEPT !.lastQuestion = h.submitted + 1,
              !.loading = TRUE,
              !.error = 0,
              !.result = 0,
              !.latest = h.submitted + 1,
              !.submitted = h.submitted + 1,
              !.in_flight = h.in_flight \cup {h.submitted + 1}]

\* submit(question, retrieval)
UseAskSubmit ==
    /\ use_ask.submitted < MaxSubmits
    /\ use_ask' = SubmitStarted(use_ask)
    /\ UNCHANGED outsideUseAsk

\* retry(): submit(lastQuestion, lastRetrieval) when there is one
UseAskRetry ==
    /\ use_ask.lastQuestion /= 0
    /\ use_ask.submitted < MaxSubmits
    /\ use_ask' = SubmitStarted(use_ask)
    /\ UNCHANGED outsideUseAsk

\* the continuation of one submit after its await: setResult or setError,
\* then setLoading(false) in the finally block
UseAskSettle ==
    /\ \E call \in use_ask.in_flight, outcome \in AskOutcomes :
          use_ask' = [use_ask EXCEPT
              !.result = IF outcome = "resolved" THEN call ELSE @,
              !.error = IF outcome = "rejected" THEN call ELSE @,
              !.loading = FALSE,
              !.in_flight = @ \ {call}]
    /\ UNCHANGED outsideUseAsk

\* reset()
UseAskReset ==
    /\ use_ask.submitted > 0
    /\ use_ask.latest /= 0
    /\ use_ask' = [use_ask EXCEPT !.loading = FALSE, !.error = 0,
                                  !.result = 0, !.lastQuestion = 0,
                                  !.latest = 0]
    /\ UNCHANGED outsideUseAsk

UseAskNext ==
    \/ UseAskSubmit
    \/ UseAskRetry
    \/ UseAskSettle
    \/ UseAskReset

UseAskSpec == UseAskInit /\ [][UseAskNext]_vars

MaxQuizzes == 3

QuizOutcomes == {"resolved", "rejected"}
\* the answer of a judge call: true (maru) or false (batsu)
Answers == {"maru", "batsu"}
NoAnswer == "null"

outsideUseQuiz == <<quizVars, sampler, ask, client, chunk_pool, use_ask>>

UseQuizInit ==
    /\ QuizIdle
    /\ sampler = Idle
    /\ ask = Idle
    /\ client = Idle
    /\ chunk_pool = Idle
    /\ use_ask = Idle
    /\ use_quiz = [pc |-> "mounted", quizId |-> 0,
                   loadingGenerate |-> FALSE, loadingJudge |-> FALSE,
                   generateError |-> FALSE, judgeError |-> FALSE,
                   judgeResult |-> 0, lastAnswer |-> NoAnswer,
                   created |-> 0, creating |-> {}, judging |-> {}]

\* the body of generateQuiz up to its await
GenerateStarted(h) ==
    [h EXCEPT !.loadingGenerate = TRUE,
              !.generateError = FALSE,
              !.judgeError = FALSE,
              !.judgeResult = 0,
              !.quizId = 0,
              !.created = h.created + 1,
              !.creating = h.creating \cup {h.created + 1}]

\* generateQuiz(), from the start button or as retryGenerate
GenerateQuiz ==
    /\ ~use_quiz.loadingGenerate
    /\ use_quiz.created < MaxQuizzes
    /\ use_quiz' = GenerateStarted(use_quiz)
    /\ UNCHANGED outsideUseQuiz

\* regenerateQuiz(), from the button shown with a judge error
RegenerateQuiz ==
    /\ use_quiz.judgeError
    /\ use_quiz.created < MaxQuizzes
    /\ use_quiz' = GenerateStarted(use_quiz)
    /\ UNCHANGED outsideUseQuiz

\* the continuation of generateQuiz after its await
GenerateSettle ==
    /\ \E call \in use_quiz.creating, outcome \in QuizOutcomes :
          use_quiz' = [use_quiz EXCEPT
              !.quizId = IF outcome = "resolved" THEN call ELSE @,
              !.generateError = IF outcome = "rejected" THEN TRUE ELSE @,
              !.loadingGenerate = FALSE,
              !.creating = @ \ {call}]
    /\ UNCHANGED outsideUseQuiz

\* the body of judge up to its await; the request carries the quizId of
\* the render the call was made in
JudgeStarted(h, answer) ==
    [h EXCEPT !.lastAnswer = answer,
              !.loadingJudge = TRUE,
              !.judgeError = FALSE,
              !.judgeResult = 0,
              !.judging = h.judging \cup {h.quizId}]

\* judge(answer), from the judge buttons
Judge ==
    /\ use_quiz.quizId /= 0
    /\ ~use_quiz.loadingJudge
    /\ \E answer \in Answers :
          use_quiz' = JudgeStarted(use_quiz, answer)
    /\ UNCHANGED outsideUseQuiz

\* retryJudge(), from the button shown with a judge error
RetryJudge ==
    /\ use_quiz.judgeError
    /\ use_quiz.quizId /= 0
    /\ use_quiz.lastAnswer /= NoAnswer
    /\ use_quiz' = JudgeStarted(use_quiz, use_quiz.lastAnswer)
    /\ UNCHANGED outsideUseQuiz

\* the continuation of judge after its await
JudgeSettle ==
    /\ \E quiz \in use_quiz.judging, outcome \in QuizOutcomes :
          use_quiz' = [use_quiz EXCEPT
              !.judgeResult = IF outcome = "resolved" THEN quiz ELSE @,
              !.judgeError = IF outcome = "rejected" THEN TRUE ELSE @,
              !.loadingJudge = FALSE,
              !.judging = @ \ {quiz}]
    /\ UNCHANGED outsideUseQuiz

UseQuizNext ==
    \/ GenerateQuiz
    \/ RegenerateQuiz
    \/ GenerateSettle
    \/ Judge
    \/ RetryJudge
    \/ JudgeSettle

UseQuizSpec == UseQuizInit /\ [][UseQuizNext]_vars

\* C30: a judge result on display is the result for the quiz on display:
\* judgeResult is null or belongs to the quiz held in quizId.
C30_JudgeResultBelongsToQuizId ==
    use_quiz.judgeResult /= 0 => use_quiz.judgeResult = use_quiz.quizId

============================================================================
